---- MODULE Spec2Model ----
(***************************************************************************)
(* State-machine model of the database session / transaction layer         *)
(* (src/core/db/mysql.py, src/core/db/mydb.py), of the mapper: record-type *)
(* definition, instances and DDL (src/core/db/orm.py), of the routes of    *)
(* src/core/db/web.py and of the JSON api wrapper (src/core/apis.py).      *)
(*                                                                         *)
(* A Python call that can raise is modelled by an operator returning an    *)
(* outcome record [c, ops, raised]: the thread context after the call, the *)
(* driver operations it performed on real connections, in order, and the   *)
(* exception that leaves it ("none" when it returns).                      *)
(***************************************************************************)
EXTENDS Integers, Sequences, FiniteSets, TLC

\* ------------------------------------------------------------------ bounds
NThreads == 2
MaxDepth == 3
MaxDepthThreads == 2
MaxCols == 2
MaxFields == 3

Threads == 1..NThreads

\* Python's None, for the engine and for a real connection
None == 0

VARIABLES
    engine,     \* mysql.py:94   the global engine: None or the engine object
    created,    \* number of create_engine calls that returned normally
    db_ctx,     \* mysql.py:91   _db_ctx: per thread-local slot, the _DbCtx fields
    stack,      \* per thread, the with-blocks entered and not yet exited
    err,        \* per thread, the exception now propagating ("none": running)
    opened,     \* per thread, real connections it opened and nobody closed yet
    last,       \* the last operation: who ran it, what it did on the driver, how it ended
    attrs,      \* orm.py:118   the Field attributes of a class body, in iteration order
    cls,        \* orm.py:118   what defining the class gave
    hooks,      \* orm.py:159   the names of _triggers the class body defines
    inst,       \* orm.py:168   a Model instance: the entries of the dict it is
    table,      \* the committed rows of the table of the class, by primary key
    olast,      \* the last Model operation: what it ran, executed and gave
    input,      \* the arguments of a call of a function of web.py, apis.py, orm.py
    output      \* what that call gave

ormvars == <<hooks, inst, table, olast>>
callvars == <<input, output>>
vars == <<engine, created, db_ctx, stack, err, opened, last, attrs, cls,
          hooks, inst, table, olast, input, output>>
dbvars == <<engine, created, db_ctx, stack, err, opened, last>>

\* ------------------------------------------------------- attribute lookup
\* Attributes a _DbCtx instance has (mysql.py:71-88): anything else raises
\* AttributeError when read.
DbCtxAttrs == {"connection", "transactions", "is_init", "init", "cleanup", "cursor"}

\* Attributes a _TransactionCtx instance has (mysql.py:152-197): commit and
\* rollback are defined as functions local to __exit__, after its try
\* statement; they are not attributes of the class.
TransactionCtxAttrs == {"__enter__", "__exit__", "should_close_conn"}

HasAttr(obj, name) == name \in obj

\* threading.local (mysql.py:67): the attributes of _db_ctx a thread reads
\* and writes are those of the slot of the running thread.
LocalShared(t) == 1
Local(t) == t

\* ------------------------------------------------------------ outcomes
Ret(c) == [c |-> c, ops |-> <<>>, raised |-> "none"]
Raise(c, e) == [c |-> c, ops |-> <<>>, raised |-> e]
Op(name, conn) == [op |-> name, conn |-> conn]

\* b runs after a returned; a raising skips b
Then(a, b) ==
    IF a.raised # "none" THEN a
    ELSE [c |-> b.c, ops |-> a.ops \o b.ops, raised |-> b.raised]

\* try: a  finally: b  -- b always runs; what b raises replaces what a raised
Finally(a, b) ==
    [c |-> b.c, ops |-> a.ops \o b.ops,
     raised |-> IF b.raised # "none" THEN b.raised ELSE a.raised]

\* ------------------------------------------------------- _LazyConnection
\* A context c is [init, real, transactions]:
\*   init          _db_ctx.connection is not None (a _LazyConnection exists)
\*   real          _LazyConnection.connection: None or the real connection,
\*                 named by the thread that opened it
\*   transactions  _db_ctx.transactions
NoCtx == [init |-> FALSE, real |-> None, transactions |-> 0]

\* _LazyConnection.cursor (mysql.py:46-51), called by thread t: the real
\* connection, opened if there is none, gives a cursor
LazyConnection_cursor(c, t, eng, connectOk) ==
    IF c.real = None
    THEN IF eng = None THEN Raise(c, "AttributeError")
         ELSE IF ~connectOk THEN Raise(c, "ConnectFailed")
         ELSE [c |-> [c EXCEPT !.real = t],
               ops |-> <<Op("connect", t), Op("cursor", t)>>, raised |-> "none"]
    ELSE [c |-> c, ops |-> <<Op("cursor", c.real)>>, raised |-> "none"]

\* _LazyConnection.commit (mysql.py:53-54)
LazyConnection_commit(c, commitOk) ==
    IF c.real = None THEN Raise(c, "AttributeError")
    ELSE IF commitOk
    THEN [c |-> c, ops |-> <<Op("commit", c.real)>>, raised |-> "none"]
    ELSE [c |-> c, ops |-> <<Op("commit", c.real)>>, raised |-> "CommitFailed"]

\* _LazyConnection.rollback (mysql.py:56-57)
LazyConnection_rollback(c, rollbackOk) ==
    IF c.real = None THEN Raise(c, "AttributeError")
    ELSE IF rollbackOk
    THEN [c |-> c, ops |-> <<Op("rollback", c.real)>>, raised |-> "none"]
    ELSE [c |-> c, ops |-> <<Op("rollback", c.real)>>, raised |-> "RollbackFailed"]

\* _LazyConnection.cleanup (mysql.py:59-64)
LazyConnection_cleanup(c) ==
    IF c.real # None
    THEN [c |-> [c EXCEPT !.real = None],
          ops |-> <<Op("close", c.real)>>, raised |-> "none"]
    ELSE Ret(c)

\* ---------------------------------------------------------------- _DbCtx
\* _DbCtx.is_init (mysql.py:75-76)
DbCtx_is_init(c) == c.init

\* _DbCtx.init (mysql.py:78-81): a _LazyConnection, its connection None
DbCtx_init_eager(c) == [init |-> TRUE, real |-> 1, transactions |-> 0]
DbCtx_init(c) == [init |-> TRUE, real |-> None, transactions |-> 0]

\* _DbCtx.cleanup (mysql.py:83-85)
DbCtx_cleanup(c) ==
    IF ~c.init THEN Raise(c, "AttributeError")
    ELSE LET r == LazyConnection_cleanup(c)
         IN  [r EXCEPT !.c.init = FALSE]

\* -------------------------------------------------------- _ConnectionCtx
\* _ConnectionCtx.__enter__ (mysql.py:114-120)
ConnectionCtx_enter(c) ==
    IF ~DbCtx_is_init(c)
    THEN [c |-> DbCtx_init(c), should_cleanup |-> TRUE]
    ELSE [c |-> c, should_cleanup |-> FALSE]

\* _ConnectionCtx.__exit__ (mysql.py:122-125)
ConnectionCtx_exit_always(c, should_cleanup) == DbCtx_cleanup(c)
ConnectionCtx_exit(c, should_cleanup) ==
    IF should_cleanup THEN DbCtx_cleanup(c) ELSE Ret(c)

\* with _ConnectionCtx(): body   (with_connection, mysql.py:137-149).
\* body is the outcome of the wrapped function, run on the context that
\* __enter__ left; should_cleanup is what __enter__ set.
WithConnection(should_cleanup, body) ==
    Finally(body, ConnectionCtx_exit(body.c, should_cleanup))

\* ------------------------------------------------------- _TransactionCtx
\* _TransactionCtx.__enter__ (mysql.py:158-166)
TransactionCtx_enter(c) ==
    IF ~DbCtx_is_init(c)
    THEN IF HasAttr(DbCtxAttrs, "Init")
         THEN [c |-> [DbCtx_init(c) EXCEPT !.transactions = @ + 1],
               should_close_conn |-> TRUE, raised |-> "none"]
         ELSE [c |-> c, should_close_conn |-> FALSE, raised |-> "AttributeError"]
    ELSE [c |-> [c EXCEPT !.transactions = @ + 1],
          should_close_conn |-> FALSE, raised |-> "none"]

\* commit (mysql.py:181-191): commit; if it fails, roll back and re-raise
TransactionCtx_commit(c, commitOk, rollbackOk) ==
    LET cm == LazyConnection_commit(c, commitOk)
    IN  IF cm.raised = "none" THEN cm
        ELSE LET rb == LazyConnection_rollback(cm.c, rollbackOk)
             IN  [c |-> rb.c, ops |-> cm.ops \o rb.ops,
                  raised |-> IF rb.raised # "none" THEN rb.raised ELSE cm.raised]

\* rollback (mysql.py:193-197)
TransactionCtx_rollback(c, rollbackOk) == LazyConnection_rollback(c, rollbackOk)

\* self.commit() and self.rollback() as __exit__ calls them (mysql.py:174,176)
Self_commit(c, commitOk, rollbackOk) ==
    IF HasAttr(TransactionCtxAttrs, "commit")
    THEN TransactionCtx_commit(c, commitOk, rollbackOk)
    ELSE Raise(c, "AttributeError")

Self_rollback(c, rollbackOk) ==
    IF HasAttr(TransactionCtxAttrs, "rollback")
    THEN TransactionCtx_rollback(c, rollbackOk)
    ELSE Raise(c, "AttributeError")

\* _TransactionCtx.__exit__ (mysql.py:168-179); exc is the exception of the body
TransactionCtx_exit_nodec(c, should_close_conn, exc, commitOk, rollbackOk) ==
    LET try == IF c.transactions = 1
               THEN IF exc = "none"
                    THEN Self_commit(c, commitOk, rollbackOk)
                    ELSE Self_rollback(c, rollbackOk)
               ELSE Ret(c)
    IN  Finally(try, IF should_close_conn THEN DbCtx_cleanup(try.c) ELSE Ret(try.c))

TransactionCtx_exit(c, should_close_conn, exc, commitOk, rollbackOk) ==
    LET c1  == [c EXCEPT !.transactions = @ - 1]
        try == IF c1.transactions = 0
               THEN IF exc = "none"
                    THEN Self_commit(c1, commitOk, rollbackOk)
                    ELSE Self_rollback(c1, rollbackOk)
               ELSE Ret(c1)
    IN  Finally(try, IF should_close_conn THEN DbCtx_cleanup(try.c) ELSE Ret(try.c))

\* ------------------------------------------------------------ statements
\* cursor.execute on the real connection (mysql.py:227, 271)
Execute(c, execOk) ==
    [c |-> c, ops |-> <<Op("execute", c.real)>>,
     raised |-> IF execOk THEN "none" ELSE "ExecuteFailed"]

\* the auto-commit test of _update (mysql.py:273-275)
AutoCommit(c, commitOk) ==
    IF ~HasAttr(DbCtxAttrs, "transaction") THEN Raise(c, "AttributeError")
    ELSE IF c.transactions = 0 THEN LazyConnection_commit(c, commitOk)
    ELSE Ret(c)

\* finally: if cursor: cursor.close()   (mysql.py:237-239, 277-279); cursor:
\* whether the variable cursor was assigned a cursor
CursorFinally_never(c, cursor) == Ret(c)
CursorFinally(c, cursor) ==
    IF cursor
    THEN [c |-> c, ops |-> <<Op("cursor_close", c.real)>>, raised |-> "none"]
    ELSE Ret(c)

\* the body of _update (mysql.py:265-279)
Update_body(c, t, eng, connectOk, execOk, commitOk) ==
    LET cur == LazyConnection_cursor(c, t, eng, connectOk)
        exe == Execute(cur.c, execOk)
        try == Then(cur, Then(exe, AutoCommit(exe.c, commitOk)))
    IN  Finally(try, CursorFinally(try.c, cur.raised = "none"))

\* _update with its with_connection decorator (mysql.py:263-279)
Update(c, t, eng, connectOk, execOk, commitOk) ==
    LET en == ConnectionCtx_enter(c)
    IN  WithConnection(en.should_cleanup,
                       Update_body(en.c, t, eng, connectOk, execOk, commitOk))

\* ---------------------------------------------------------------- engine
\* select_engine (mysql.py:302-307)
EngineMapping == {"mysql"}
select_engine(name) == IF name \in EngineMapping THEN name ELSE "None"

\* create_engine (mysql.py:310-319): the engine afterwards and the exception.
\* importOk: whether mysql_engine's "import MySQLdb" succeeds (mysql.py:293).
AlreadyInitialized_never(eng) == FALSE
AlreadyInitialized(eng) == eng # None

create_engine(eng, name, importOk, newEngine) ==
    IF AlreadyInitialized(eng)
    THEN [engine |-> eng, raised |-> "DBError_AlreadyInitialized"]
    ELSE IF select_engine(name) = "None"
    THEN [engine |-> eng, raised |-> "DBError_NotSupported"]
    ELSE IF ~importOk
    THEN [engine |-> eng, raised |-> "ImportError"]
    ELSE [engine |-> newEngine, raised |-> "none"]

\* ------------------------------------------------------------ select_int
\* Python values: [type, v].  In Python 2 an int and a long are different
\* types, and isinstance(x, int) is false of a long.
NoneVal == [type |-> "NoneType", v |-> 0]
IntVal(n) == [type |-> "int", v |-> n]
Values == {IntVal(1), [type |-> "long", v |-> 1], [type |-> "str", v |-> 0]}
ColNames == {"a", "b"}
Columns == [name : ColNames, value : Values]

\* The first row of a result set: its columns in order; <<>> when the result
\* set has no row (fetchone returns None).
Rows == UNION {[1..n -> Columns] : n \in 0..MaxCols}

\* Dict(names, values) (utils.py:20-23): zip, a later key overwriting an earlier
Dict(row) ==
    [n \in {row[i].name : i \in DOMAIN row} |->
        LET i == CHOOSE i \in DOMAIN row :
                    /\ row[i].name = n
                    /\ \A j \in DOMAIN row : row[j].name = n => j <= i
        IN  row[i].value]

\* isinstance(v, int) (mysql.py:253)
IsInstanceInt(v) == v.type \in {"int", "bool"}

\* select_int after _select returned (mysql.py:249-255): [raised, result]
select_int_check(row) ==
    IF row = <<>> THEN [raised |-> "TypeError", result |-> NoneVal]
    ELSE LET d == Dict(row)
             v == d[CHOOSE n \in DOMAIN d : TRUE]
         IN  IF Cardinality(DOMAIN d) # 1
             THEN [raised |-> "MultiColumnsError", result |-> NoneVal]
             ELSE IF ~IsInstanceInt(v)
             THEN [raised |-> "ColumnTypeError", result |-> NoneVal]
             ELSE [raised |-> "none", result |-> v]

\* _select (mysql.py:219-239): what is fetched is the caller's to model
Select_body(c, t, eng, connectOk, execOk) ==
    LET cur == LazyConnection_cursor(c, t, eng, connectOk)
        try == Then(cur, Execute(cur.c, execOk))
    IN  Finally(try, CursorFinally(try.c, cur.raised = "none"))

\* select_int with its with_connection decorator (mysql.py:247-255)
SelectInt(c, t, eng, connectOk, execOk, row) ==
    LET en  == ConnectionCtx_enter(c)
        sel == Select_body(en.c, t, eng, connectOk, execOk)
    IN  WithConnection(en.should_cleanup,
                       Then(sel, Raise(sel.c, select_int_check(row).raised)))

\* ------------------------------------------------------------------- orm
\* A Field as the metaclass reads it (orm.py:9-18): name is "" when the
\* class body gave no name= argument (kwargs.get('name', None)).
NoName == ""
FieldNames == {NoName, "col"}
Fields == [name : FieldNames, primary_key : BOOLEAN,
           nullable : BOOLEAN, updatable : BOOLEAN]

\* The attribute names of a class body; attrs[i] is the Field bound to
\* AttrNames[i], and attrs.iteritems() yields them in the order of attrs
\* (a dict's order is arbitrary: every order of every set of fields is a body).
AttrNames == <<"id", "name", "age", "email", "created">>
ClassBodies == UNION {[1..n -> Fields] : n \in 0..MaxFields}

NoMapping == [k \in {} |-> 0]
Put(mapping, k, v) ==
    [x \in DOMAIN mapping \cup {k} |-> IF x = k THEN v ELSE mapping[x]]

\* the class before it is defined; primary_key is the attribute name of
\* the primary-key Field, "None" when there is none
NoClass == [state |-> "undefined", mapping |-> NoMapping,
            primary_key |-> "None", raised |-> "none"]

\* One turn of the loop of ModelMetaClass.__new__ (orm.py:131-147) for the
\* attribute k bound to the Field v.  The duplicate check, the coercion of
\* the primary key and mapping[k] = v are all inside "if not v.name:".
ScanField(st, k, v) ==
    IF st.raised # "none" THEN st
    ELSE IF v.name # NoName THEN st
    ELSE LET named == [v EXCEPT !.name = k]
         IN  IF named.primary_key
             THEN IF st.primary_key # "None"
                  THEN [st EXCEPT !.raised = "TypeError"]
                  ELSE [st EXCEPT !.primary_key = k,
                            !.mapping = Put(@, k, [named EXCEPT !.updatable = FALSE,
                                                                !.nullable = FALSE])]
             ELSE [st EXCEPT !.mapping = Put(@, k, named)]

RECURSIVE Scan(_, _, _)
Scan(st, body, i) ==
    IF i > Len(body) THEN st
    ELSE Scan(ScanField(st, AttrNames[i], body[i]), body, i + 1)

\* ModelMetaClass.__new__ for a subclass of Model (orm.py:118-162)
ModelMetaClass_new(body) ==
    LET st == Scan([NoClass EXCEPT !.state = "scanning"], body, 1)
    IN  IF st.raised # "none" THEN [st EXCEPT !.state = "failed"]
        ELSE IF st.primary_key = "None"
        THEN [st EXCEPT !.state = "failed", !.raised = "TypeError"]
        ELSE [st EXCEPT !.state = "defined"]

\* ------------------------------------------------------- Model instances
MaxVal == 1
MaxModelFields == 3

\* the values of fields; Null is the NULL of a column no value was given
Vals == 0..MaxVal
Null == 0 - 1

\* Field._default (orm.py:11): the literal v, or a callable that returns v
Literal(v) == [callable |-> FALSE, v |-> v]
Callable(v) == [callable |-> TRUE, v |-> v]

\* Field.default (orm.py:20-23): d() if callable(d) else d
Field_default(f) == f.default.v

\* The class bodies whose instances are followed (test_db.py:7-11): a
\* primary key "id" whose default is a generator, a field "name" of every
\* updatable and insertable flag and a field "age", updatable and
\* insertable, their defaults literals; none is given name=.
PkFields == [name : {NoName}, primary_key : {TRUE}, nullable : {FALSE},
             updatable : BOOLEAN, insertable : {TRUE},
             default : {Callable(MaxVal)}]
OtherFields == [name : {NoName}, primary_key : {FALSE}, nullable : {FALSE},
                updatable : BOOLEAN, insertable : BOOLEAN, default : {Literal(0)}]
AgeField == [name |-> NoName, primary_key |-> FALSE, nullable |-> FALSE,
             updatable |-> TRUE, insertable |-> TRUE, default |-> Literal(0)]
ModelBodies == {<<p, f, AgeField>> : p \in PkFields, f \in OtherFields}

\* the columns of the table of the class, and its rows
TableColumns == {AttrNames[i] : i \in 1..MaxModelFields}
TableRows == [TableColumns -> Vals \cup {Null}]

\* _triggers (orm.py:95)
Triggers == {"pre_insert", "pre_update", "pre_delete"}

\* The names the metaclass leaves in the class for the triggers
\* (orm.py:159-161): those the body defines, and the one name 'trigger',
\* bound to None, when the body does not define them all.
InstallTriggers(hk) == IF Triggers \subseteq hk THEN hk ELSE hk \cup {"trigger"}

EmptyDict == [k \in {} |-> 0]
\* an instance: d, the entries of the dict; ctor, the keys it was constructed with
NoInst == [made |-> FALSE, d |-> EmptyDict, ctor |-> {}]
Instance(d, ctor) == [made |-> TRUE, d |-> d, ctor |-> ctor]

\* getattr(self, key) for a key the class may bind (orm.py:171-175): the
\* attribute of the class, else the entry of the dict, else AttributeError
GetAttr(hk, self, key) ==
    IF key \in hk THEN [raised |-> "none", value |-> "method"]
    ELSE IF key \in InstallTriggers(hk) THEN [raised |-> "none", value |-> "None"]
    ELSE IF key \in DOMAIN self THEN [raised |-> "none", value |-> "entry"]
    ELSE [raised |-> "AttributeError", value |-> "None"]

\* self.pre_x and self.pre_x()   (orm.py:228, 246, 253): runs is the number
\* of times the hook ran
RunTrigger(hk, self, name) ==
    LET a == GetAttr(hk, self, name)
    IN  [raised |-> a.raised, runs |-> IF a.value = "method" THEN 1 ELSE 0]

\* SQL statements, by what they do to the rows of the table
\* (insert: row, the columns given; update: row, the SET clause, and key,
\* the primary key of its WHERE clause; delete: key; none: no statement)
Stmt(kind, row, key) == [kind |-> kind, row |-> row, key |-> key]
NoStmt == Stmt("none", EmptyDict, Null)

\* whether the server accepts the statement: no duplicate primary key, and
\* an update with an empty SET clause is a syntax error
StmtOk(tbl, stmt, pk) ==
    CASE stmt.kind = "insert" ->
            /\ pk \in DOMAIN stmt.row
            /\ \A r \in tbl : r[pk] # stmt.row[pk]
      [] stmt.kind = "update" -> DOMAIN stmt.row # {}
      [] OTHER -> TRUE

\* the rows as the connection sees them once the statement has executed
Apply(tbl, stmt, pk) ==
    CASE stmt.kind = "insert" ->
            tbl \cup {[c \in TableColumns |->
                        IF c \in DOMAIN stmt.row THEN stmt.row[c] ELSE Null]}
      [] stmt.kind = "update" ->
            {IF r[pk] = stmt.key
             THEN [c \in TableColumns |->
                        IF c \in DOMAIN stmt.row THEN stmt.row[c] ELSE r[c]]
             ELSE r : r \in tbl}
      [] stmt.kind = "delete" -> {r \in tbl : r[pk] # stmt.key}
      [] OTHER -> tbl

\* select_one with its with_connection decorator (mysql.py:242-244)
SelectOne(c, t, eng, connectOk, execOk) ==
    LET en == ConnectionCtx_enter(c)
    IN  WithConnection(en.should_cleanup,
                       Select_body(en.c, t, eng, connectOk, execOk))

OpNames(ops) == [i \in DOMAIN ops |-> ops[i].op]
HasExecute(ops) == \E i \in DOMAIN ops : ops[i].op = "execute"
HasCommit(ops) == \E i \in DOMAIN ops : ops[i].op = "commit"

\* db.update(sql, args) (mysql.py:288-289) of the statement stmt on the rows
\* tbl: what _update did, the rows the connection saw after the statement
\* (view) and the committed rows afterwards (table).  Work a connection did
\* not commit is lost when the connection closes.
Db_update(c, tbl, stmt, pk, t, eng, connectOk, execOk, commitOk) ==
    LET exeOk == execOk /\ StmtOk(tbl, stmt, pk)
        out   == Update(c, t, eng, connectOk, exeOk, commitOk)
        view  == IF HasExecute(out.ops) /\ exeOk THEN Apply(tbl, stmt, pk) ELSE tbl
    IN  [c |-> out.c, ops |-> out.ops, raised |-> out.raised,
         stmt |-> IF HasExecute(out.ops) THEN stmt ELSE NoStmt,
         accepted |-> StmtOk(tbl, stmt, pk), view |-> view,
         table |-> IF HasCommit(out.ops) /\ commitOk THEN view ELSE tbl]

\* db.insert(table, **kwargs) (mysql.py:282-285): zip(*{}.iteritems()) gives
\* nothing to unpack into cols, args
Db_insert(c, tbl, params, pk, t, eng, connectOk, execOk, commitOk) ==
    IF DOMAIN params = {}
    THEN [c |-> c, ops |-> <<>>, raised |-> "ValueError",
          stmt |-> NoStmt, accepted |-> TRUE, view |-> tbl, table |-> tbl]
    ELSE Db_update(c, tbl, Stmt("insert", params, Null), pk, t, eng, connectOk, execOk, commitOk)

\* the outcome of a Model operation that did nothing
NoOrmOut(c, self, tbl) ==
    [c |-> c, ops |-> <<>>, raised |-> "none", trace |-> <<>>, self |-> self,
     stmt |-> NoStmt, accepted |-> TRUE, view |-> tbl, table |-> tbl, calls |-> 0]

\* the outcome of a Model operation whose hook lookup returned, whose loop
\* left the instance as self1 after calls calls of default generators, and
\* whose call of the db module gave db
OrmOut(tr, name, self1, calls, db) ==
    [c |-> db.c, ops |-> db.ops, raised |-> db.raised,
     trace |-> (IF tr.runs = 1 THEN <<name>> ELSE <<>>) \o OpNames(db.ops),
     self |-> self1, stmt |-> db.stmt, accepted |-> db.accepted,
     view |-> db.view, table |-> db.table,
     calls |-> calls]

\* setattr(self, k, v.default) for the keys not set (orm.py:232-236, 256-258)
Fill(c, self, keys) ==
    [k \in DOMAIN self \cup keys |->
        IF k \in DOMAIN self THEN self[k] ELSE Field_default(c.mapping[k])]
FillCalls(c, self, keys) ==
    Cardinality({k \in keys \ DOMAIN self : c.mapping[k].default.callable})

Insertable(c) == {k \in DOMAIN c.mapping : c.mapping[k].insertable}
Updatable_all(c) == DOMAIN c.mapping
Updatable(c) == {k \in DOMAIN c.mapping : c.mapping[k].updatable}

\* Model.insert (orm.py:252-261)
Model_insert(c, hk, self, ctx, tbl, t, eng, connectOk, execOk, commitOk) ==
    LET tr     == RunTrigger(hk, self, "pre_insert")
        keys   == Insertable(c)
        self1  == Fill(c, self, keys)
        params == [k \in keys |-> self1[k]]
    IN  IF tr.raised # "none"
        THEN [NoOrmOut(ctx, self, tbl) EXCEPT !.raised = tr.raised]
        ELSE OrmOut(tr, "pre_insert", self1, FillCalls(c, self, keys),
                    Db_insert(ctx, tbl, params, c.primary_key,
                              t, eng, connectOk, execOk, commitOk))

\* Model.update (orm.py:227-243)
Model_update(c, hk, self, ctx, tbl, t, eng, connectOk, execOk, commitOk) ==
    LET tr    == RunTrigger(hk, self, "pre_update")
        keys  == Updatable(c)
        self1 == Fill(c, self, keys)
        pk    == c.primary_key
    IN  IF tr.raised # "none"
        THEN [NoOrmOut(ctx, self, tbl) EXCEPT !.raised = tr.raised]
        ELSE IF pk \notin DOMAIN self1
        THEN [NoOrmOut(ctx, self1, tbl) EXCEPT
                    !.raised = "AttributeError",
                    !.trace = IF tr.runs = 1 THEN <<"pre_update">> ELSE <<>>,
                    !.calls = FillCalls(c, self, keys)]
        ELSE OrmOut(tr, "pre_update", self1, FillCalls(c, self, keys),
                    Db_update(ctx, tbl,
                              Stmt("update", [k \in keys |-> self1[k]], self1[pk]),
                              pk, t, eng, connectOk, execOk, commitOk))

\* Model.delete (orm.py:245-250)
Model_delete(c, hk, self, ctx, tbl, t, eng, connectOk, execOk, commitOk) ==
    LET tr == RunTrigger(hk, self, "pre_delete")
        pk == c.primary_key
    IN  IF tr.raised # "none"
        THEN [NoOrmOut(ctx, self, tbl) EXCEPT !.raised = tr.raised]
        ELSE IF pk \notin DOMAIN self
        THEN [NoOrmOut(ctx, self, tbl) EXCEPT
                    !.raised = "AttributeError",
                    !.trace = IF tr.runs = 1 THEN <<"pre_delete">> ELSE <<>>]
        ELSE OrmOut(tr, "pre_delete", self, 0,
                    Db_update(ctx, tbl, Stmt("delete", EmptyDict, self[pk]),
                              pk, t, eng, connectOk, execOk, commitOk))

\* Model.get (orm.py:180-186): cls(**d) if d else None
Model_get(c, key, ctx, tbl, t, eng, connectOk, execOk) ==
    LET out  == SelectOne(ctx, t, eng, connectOk, execOk)
        rows == {r \in tbl : r[c.primary_key] = key}
    IN  [c |-> out.c, ops |-> out.ops, raised |-> out.raised,
         trace |-> OpNames(out.ops),
         result |-> IF out.raised = "none" /\ rows # {}
                    THEN LET r == CHOOSE r \in rows : TRUE
                         IN  Instance(r, DOMAIN r)
                    ELSE NoInst]

\* the record of a Model operation: arg, the key get was given; ok, whether
\* the driver and the server would carry out all that was asked of them;
\* table0, inst0, the committed rows and the instance before it; of a get,
\* inserted: how the insert() of inst just before it ended ("no": the
\* operation before was not an insert the server would carry out)
NoOrmLast ==
    [op |-> "none", arg |-> Null, ok |-> TRUE, raised |-> "none", trace |-> <<>>,
     stmt |-> NoStmt, view |-> {}, table0 |-> {}, inst0 |-> NoInst,
     result |-> NoInst, calls |-> 0, inserted |-> "no"]

OrmIdle ==
    /\ hooks = {}
    /\ inst = NoInst
    /\ table = {}
    /\ olast = NoOrmLast

NoCall == [fn |-> "none"]

CallIdle ==
    /\ input = NoCall
    /\ output = NoCall

\* ----------------------------------------------------------------- routes
\* Strings are sequences of characters: "/", ":", the newline and the
\* letter "a" (which stands for every character of \w).
MaxPath == 3
MaxUrl == 3
Newline == "\n"
Chars == {"/", ":", "a", Newline}
Strings(n) == UNION {[1..k -> Chars] : k \in 0..n}
IsWord(ch) == ch = "a"

\* the end of the run of \w characters that starts at path[i]
WordEnd(path, i) ==
    CHOOSE j \in i..Len(path) :
        /\ \A k \in i..j : IsWord(path[k])
        /\ j = Len(path) \/ ~IsWord(path[j + 1])

\* _re_route.split(path) (web.py:332, 349): the placeholders ':name' and, one
\* by one, the characters between them
RECURSIVE Split(_, _)
Split(path, i) ==
    IF i > Len(path) THEN <<>>
    ELSE IF path[i] = ":" /\ i < Len(path) /\ IsWord(path[i + 1])
    THEN LET j == WordEnd(path, i + 1)
         IN  <<[kind |-> "group", name |-> SubSeq(path, i + 1, j),
                escaped |-> FALSE]>> \o Split(path, j + 1)
    ELSE <<[kind |-> "char", name |-> <<path[i]>>,
            escaped |-> ~IsWord(path[i])]>> \o Split(path, i + 1)

\* _build_regex (web.py:335-367): between '^' and '$', a group
\* (?P<name>[^\/]+) for a placeholder and, for any other character, the
\* character, after a backslash unless it is a letter or a digit
build_regex(path) == Split(path, 1)

\* re.compile: a group name used twice is an error
CompileOk(re) ==
    \A i, j \in DOMAIN re :
        (re[i].kind = "group" /\ re[j].kind = "group" /\ re[i].name = re[j].name)
            => i = j

\* Route.__init__ (web.py:375-381): a route of a path with no placeholder
\* is static and is given no attribute route
Route_init(path) ==
    LET is_static == \A i \in DOMAIN Split(path, 1) : Split(path, 1)[i].kind # "group"
    IN  [path |-> path, is_static |-> is_static,
         attrs |-> {"path", "method", "is_static", "func"}
                   \cup (IF is_static THEN {} ELSE {"route"}),
         raised |-> IF ~is_static /\ ~CompileOk(build_regex(path))
                    THEN "re_error" ELSE "none"]

NoMatch == [ok |-> FALSE, groups |-> <<>>]

\* re.match of the items of the regex from the k-th on, at url[i]: a
\* character matches itself, a group the longest run of one or more
\* characters other than '/' after which the rest matches, '$' the end of
\* the url or the place before a newline that ends it
RECURSIVE Match(_, _, _, _)
Match(re, k, url, i) ==
    IF k > Len(re)
    THEN [ok |-> i = Len(url) + 1 \/ (i = Len(url) /\ url[i] = Newline),
          groups |-> <<>>]
    ELSE IF re[k].kind = "char"
    THEN IF i <= Len(url) /\ url[i] = re[k].name[1]
         THEN Match(re, k + 1, url, i + 1) ELSE NoMatch
    ELSE LET lens == {n \in 1..(Len(url) - i + 1) :
                        /\ \A j \in i..(i + n - 1) : url[j] # "/"
                        /\ Match(re, k + 1, url, i + n).ok}
         IN  IF lens = {} THEN NoMatch
             ELSE LET n == CHOOSE n \in lens : \A m \in lens : m <= n
                  IN  [ok |-> TRUE,
                       groups |-> <<SubSeq(url, i, i + n - 1)>>
                                  \o Match(re, k + 1, url, i + n).groups]

\* Route.match (web.py:383-387)
Route_match(route, url) ==
    IF ~HasAttr(route.attrs, "route")
    THEN [raised |-> "AttributeError", ok |-> FALSE, groups |-> <<>>]
    ELSE LET m == Match(build_regex(route.path), 1, url, 1)
         IN  [raised |-> "none", ok |-> m.ok, groups |-> m.groups]

\* ----------------------------------------------------------- static files
\* A location of the file system is the sequence of names from '/' to it.
\* The document root is /www; /www, /www/static and /etc are directories;
\* the regular files are any of /www/static/f and /etc/passwd.
MaxSegments == 4
DocumentRoot == <<"www">>
Dirs == {<<>>, <<"www">>, <<"www", "static">>, <<"etc">>}
FileSystems == SUBSET {<<"www", "static", "f">>, <<"etc", "passwd">>}
SegmentNames == {"..", "f", "etc", "passwd"}

\* the urls '/static/' + segs[1] + '/' + ... + segs[n]
StaticUrls == UNION {[1..n -> SegmentNames] : n \in 0..MaxSegments}

\* StaticFileRoute.match (web.py:414-417): (url[1:],) for a url that starts
\* with '/static/', as the names of url[1:]
StaticFileRoute_match(segs) == <<"static">> \o segs

\* The location the operating system resolves a path to, name by name from
\* loc: '..' is the parent ('/' its own), and a name is looked up in a
\* directory only.  [found, loc]
RECURSIVE Resolve(_, _, _)
Resolve(loc, names, i) ==
    IF i > Len(names) THEN [found |-> TRUE, loc |-> loc]
    ELSE IF loc \notin Dirs THEN [found |-> FALSE, loc |-> loc]
    ELSE IF names[i] = ".."
    THEN Resolve(IF loc = <<>> THEN loc ELSE SubSeq(loc, 1, Len(loc) - 1), names, i + 1)
    ELSE Resolve(Append(loc, names[i]), names, i + 1)

\* os.path.isfile(fpath) (web.py:421) in the file system of regular files fs
IsFile(fs, fpath) ==
    LET r == Resolve(<<>>, fpath, 1)
    IN  r.found /\ r.loc \in fs

\* StaticFileRoute.__call__ (web.py:419-425): notfound() for what is not a
\* regular file; else the generator that streams the file at fpath
StaticFileRoute_call(fs, args) ==
    LET fpath == DocumentRoot \o args   \* os.path.join: args[0] is relative
    IN  IF ~IsFile(fs, fpath)
        THEN [raised |-> "HttpError_404", streamed |-> <<"None">>]
        ELSE [raised |-> "none", streamed |-> Resolve(<<>>, fpath, 1).loc]

\* ------------------------------------------------------------ api wrapper
\* Values are named by their Python type; json.dumps raises TypeError for
\* one that is not of a JSON type (an object, a class).
Serializable(v) == v \notin {"object", "class"}

\* exceptions: [cls, api, error, data, message]; api: an instance of APIError
APIError(class, error, data, message) ==
    [cls |-> class, api |-> TRUE, error |-> error, data |-> data, message |-> message]
APIValueError(field, message) ==
    APIError("APIValueError", "value:invalid", field, message)
APIResourceNotFoundError(field, message) ==
    APIError("APIResourceNotFoundError", "value:notfound", field, message)
APIPermissionError(message) ==
    APIError("APIPermissionError", "permission:forbidden", "permission", message)
OtherError(class, message) ==
    [cls |-> class, api |-> FALSE, error |-> "", data |-> "", message |-> message]

\* what calling the handler does: it returns a value, or raises an APIError
\* or an exception of another class (exc of class "none": it returns)
Handlers ==
    LET messages == {"", "m"}
        fields   == {"", "name", "email"}
        classes  == {"ValueError", "KeyError", "HttpError"}
        errors   ==
            {APIValueError(f, m) : f \in fields, m \in messages}
            \cup {APIResourceNotFoundError(f, m) : f \in fields, m \in messages}
            \cup {APIPermissionError(m) : m \in messages}
            \cup {APIError("APIError", "e", f, m) : f \in fields, m \in messages}
            \cup {OtherError(c, m) : c \in classes, m \in messages}
    IN  {[kind |-> "return", value |-> v, exc |-> OtherError("none", "")] :
            v \in {"dict", "list", "str", "int", "object"}}
        \cup {[kind |-> "raise", value |-> "None", exc |-> e] : e \in errors}

\* the functions of the module logging
LoggingAttrs == {"debug", "info", "warning", "error", "exception", "critical", "log"}

\* JSON text, by what it serializes: a value, or the envelope of an error
Json(kind, value, error, data, message) ==
    [kind |-> kind, value |-> value, error |-> error, data |-> data,
     message |-> message]

\* _wrapper of api(func) (apis.py:36-45), the response's content type being
\* ct: [raised, r, content_type, logged]
Api_wrapper(h, ct) ==
    LET exc == IF h.kind = "raise" THEN h.exc
               ELSE IF Serializable(h.value) THEN h.exc
               ELSE OtherError("TypeError", "m")
        Escapes(e) ==
            [raised |-> e, r |-> Json("none", "None", "", "", ""),
             content_type |-> ct, logged |-> FALSE]
        Returns(r, logged) ==
            [raised |-> "none", r |-> r, content_type |-> "application/json",
             logged |-> logged]
    IN  IF exc.cls = "none"
        THEN Returns(Json("value", h.value, "", "", ""), FALSE)
        ELSE IF exc.api
        THEN IF Serializable(exc.data) /\ Serializable(exc.message)
             THEN Returns(Json("envelope", "None", exc.error, exc.data, exc.message),
                          FALSE)
             ELSE Escapes("TypeError")
        ELSE IF ~HasAttr(LoggingAttrs, "exeception") THEN Escapes("AttributeError")
        ELSE IF Serializable("class") /\ Serializable(exc.message)
        THEN Returns(Json("envelope", "None", "internalerror", exc.cls, exc.message),
                     TRUE)
        ELSE Escapes("TypeError")

\* -------------------------------------------------------------------- DDL
\* Field.order (orm.py:17): the index of the Field in the order the Fields
\* were constructed.  The class bodies whose DDL is generated: up to
\* MaxFields Fields, none given name=, constructed in any order.
DdlFields == [name : {NoName}, primary_key : BOOLEAN, nullable : BOOLEAN,
              updatable : {TRUE}, order : 0..(MaxFields - 1)]
DdlBodies ==
    {b \in UNION {[1..n -> DdlFields] : n \in 1..MaxFields} :
        \A i, j \in DOMAIN b : b[i].order = b[j].order => i = j}

\* the attributes of a Field (orm.py:9-23)
FieldAttrs == {"name", "_default", "primary_key", "nullable", "insertable",
               "updatable", "ddl", "order", "default"}

\* what sorted() can iterate over: not a bound method
IsIterable(x) == x \in {"list", "tuple", "dict"}

\* a line of the statement: a column, the primary-key clause, ');', or one
\* of the two lines that open it
Line(kind, name, not_null) == [kind |-> kind, name |-> name, not_null |-> not_null]

\* _gen_sql (orm.py:98-111).  sorted() is given mapping.values, the method;
\* its cmp reads x._order; and the primary-key clause, ');' and the return
\* are inside the loop over the fields.
Gen_sql(mapping) ==
    LET head  == <<Line("comment", "", FALSE), Line("create table", "", FALSE)>>
        first == CHOOSE k \in DOMAIN mapping :
                    \A j \in DOMAIN mapping : mapping[k].order <= mapping[j].order
        f     == mapping[first]
    IN  IF ~IsIterable("method") THEN [raised |-> "TypeError", sql |-> <<>>]
        ELSE IF Cardinality(DOMAIN mapping) >= 2 /\ ~HasAttr(FieldAttrs, "_order")
        THEN [raised |-> "AttributeError", sql |-> <<>>]
        ELSE [raised |-> "none",
              sql |-> head \o <<Line("column", f.name, ~f.nullable),
                                Line("primary key",
                                     IF f.primary_key THEN f.name ELSE "None", FALSE),
                                Line(");", "", FALSE)>>]

\* --------------------------------------------------------------- actions
\* A with-block entered and not yet exited: the context manager's fields,
\* and, of a transaction block, inner: how the last transaction block
\* directly inside it ended ("none": there was none; "returned"; "raised").
Frame(kind, should_cleanup, should_close_conn) ==
    [kind |-> kind, should_cleanup |-> should_cleanup,
     should_close_conn |-> should_close_conn, inner |-> "none"]

\* the enclosing blocks once the transaction block inside the innermost ended
Ended(rest, kind, exc) ==
    IF rest = <<>> \/ kind # "transaction" THEN rest
    ELSE IF rest[Len(rest)].kind # "transaction" THEN rest
    ELSE [rest EXCEPT ![Len(rest)].inner =
                        IF exc = "none" THEN "returned" ELSE "raised"]

\* The record of an operation.  depth, level, engine0: _db_ctx.transactions,
\* the number of with-blocks open and the engine, all before the operation;
\* flag: should_cleanup / should_close_conn of the scope entered or exited;
\* exc: the exception an exit was given; raised: the exception that leaves
\* the operation; outer: the operation ran, or ended, with no with-block open;
\* inner: the exited block's inner; commitOk, rollbackOk: whether the driver
\* would carry out a commit, a rollback, asked of it by the exit of the
\* outermost transaction block whose body returned (TRUE of any other operation).
NoLast ==
    [t |-> 0, op |-> "none", arg |-> "", depth |-> 0, level |-> 0, flag |-> FALSE,
     exc |-> "none", ops |-> <<>>, raised |-> "none", result |-> NoneVal,
     engine0 |-> None, outer |-> FALSE, inner |-> "none",
     commitOk |-> TRUE, rollbackOk |-> TRUE]

Count(ops, name, u) ==
    Cardinality({i \in DOMAIN ops : ops[i].op = name /\ ops[i].conn = u})

\* the real connections each thread opened that are still open, after ops
Opened(ops) ==
    [u \in Threads |-> opened[u] + Count(ops, "connect", u) - Count(ops, "close", u)]

\* An exception that leaves the outermost with-block (or a call made outside
\* any) reaches the caller; inside a with-block it goes on to that block's exit.
Propagate(t, raised, rest) ==
    [err EXCEPT ![t] = IF rest = <<>> THEN "none" ELSE raised]

\* with connection():   (mysql.py:128-134, 114-120)
Enter_connection(t, maxDepth) ==
    /\ err[t] = "none"
    /\ Len(stack[t]) < maxDepth
    /\ LET k  == Local(t)
           en == ConnectionCtx_enter(db_ctx[k])
       IN  /\ db_ctx' = [db_ctx EXCEPT ![k] = en.c]
           /\ stack' = [stack EXCEPT ![t] =
                            Append(@, Frame("connection", en.should_cleanup, FALSE))]
           /\ last' = [NoLast EXCEPT !.t = t, !.op = "connection_enter",
                           !.depth = db_ctx[k].transactions,
                           !.level = Len(stack[t]), !.flag = en.should_cleanup,
                           !.engine0 = engine]
    /\ UNCHANGED <<engine, created, err, opened, attrs, cls, ormvars, callvars>>

\* with transaction():   (mysql.py:200-206, 158-166).  An __enter__ that
\* raises enters no block: the exception goes to the enclosing block.
Enter_transaction(t, maxDepth) ==
    /\ err[t] = "none"
    /\ Len(stack[t]) < maxDepth
    /\ LET k  == Local(t)
           en == TransactionCtx_enter(db_ctx[k])
       IN  /\ db_ctx' = [db_ctx EXCEPT ![k] = en.c]
           /\ stack' = [stack EXCEPT ![t] =
                            IF en.raised = "none"
                            THEN Append(@, Frame("transaction", FALSE, en.should_close_conn))
                            ELSE @]
           /\ err' = IF en.raised = "none" THEN err
                     ELSE Propagate(t, en.raised, stack[t])
           /\ last' = [NoLast EXCEPT !.t = t, !.op = "transaction_enter",
                           !.depth = db_ctx[k].transactions,
                           !.level = Len(stack[t]), !.flag = en.should_close_conn,
                           !.raised = en.raised, !.engine0 = engine,
                           !.outer = (stack[t] = <<>>)]
    /\ UNCHANGED <<engine, created, opened, attrs, cls, ormvars, callvars>>

\* the exit of block f, given exc, is that of an outermost transaction block
\* whose body returned
Commits(f, c, exc) ==
    f.kind = "transaction" /\ c.transactions = 1 /\ exc = "none"

\* The innermost with-block ends: its body returned (err[t] = "none") or an
\* exception is leaving it.  __exit__ returns None, so the exception goes on
\* unless __exit__ itself raises, which replaces it.
Exit(t) ==
    /\ stack[t] # <<>>
    /\ \E commitOk \in BOOLEAN, rollbackOk \in BOOLEAN :
        LET k    == Local(t)
            f    == stack[t][Len(stack[t])]
            rest == SubSeq(stack[t], 1, Len(stack[t]) - 1)
            exc  == err[t]
            out  == IF f.kind = "connection"
                    THEN ConnectionCtx_exit(db_ctx[k], f.should_cleanup)
                    ELSE TransactionCtx_exit(db_ctx[k], f.should_close_conn, exc,
                                             commitOk, rollbackOk)
            leaving == IF out.raised # "none" THEN out.raised ELSE exc
        IN  /\ db_ctx' = [db_ctx EXCEPT ![k] = out.c]
            /\ stack' = [stack EXCEPT ![t] = Ended(rest, f.kind, exc)]
            /\ err' = Propagate(t, leaving, rest)
            /\ opened' = Opened(out.ops)
            /\ last' = [NoLast EXCEPT !.t = t, !.op = f.kind \o "_exit",
                            !.depth = db_ctx[k].transactions,
                            !.level = Len(stack[t]),
                            !.flag = (f.should_cleanup \/ f.should_close_conn),
                            !.exc = exc, !.ops = out.ops, !.raised = leaving,
                            !.engine0 = engine, !.outer = (rest = <<>>),
                            !.inner = f.inner,
                            !.commitOk = (commitOk \/ ~Commits(f, db_ctx[k], exc)),
                            !.rollbackOk = (rollbackOk \/ ~Commits(f, db_ctx[k], exc))]
    /\ UNCHANGED <<engine, created, attrs, cls, ormvars, callvars>>

\* the body of the innermost with-block raises
BodyRaise(t) ==
    /\ err[t] = "none"
    /\ stack[t] # <<>>
    /\ err' = [err EXCEPT ![t] = "BodyError"]
    /\ UNCHANGED <<engine, created, db_ctx, stack, opened, last, attrs, cls, ormvars, callvars>>

\* the body of the innermost with-block catches what a nested block or call raised
Catch(t) ==
    /\ err[t] # "none"
    /\ stack[t] # <<>>
    /\ err' = [err EXCEPT ![t] = "none"]
    /\ UNCHANGED <<engine, created, db_ctx, stack, opened, last, attrs, cls, ormvars, callvars>>

\* update(sql, args) / insert(table, ...)   (mysql.py:282-289)
DoUpdate(t) ==
    /\ err[t] = "none"
    /\ \E connectOk \in BOOLEAN, execOk \in BOOLEAN, commitOk \in BOOLEAN :
        LET k   == Local(t)
            out == Update(db_ctx[k], t, engine, connectOk, execOk, commitOk)
        IN  /\ db_ctx' = [db_ctx EXCEPT ![k] = out.c]
            /\ err' = Propagate(t, out.raised, stack[t])
            /\ opened' = Opened(out.ops)
            /\ last' = [NoLast EXCEPT !.t = t, !.op = "update",
                            !.depth = db_ctx[k].transactions,
                            !.level = Len(stack[t]), !.ops = out.ops,
                            !.raised = out.raised,
                            !.result = IF out.raised = "none" THEN IntVal(1) ELSE NoneVal,
                            !.engine0 = engine, !.outer = (stack[t] = <<>>)]
    /\ UNCHANGED <<engine, created, stack, attrs, cls, ormvars, callvars>>

\* select_int(sql, args), the first row of the result set being row
DoSelectInt(t) ==
    /\ err[t] = "none"
    /\ \E connectOk \in BOOLEAN, execOk \in BOOLEAN, row \in Rows :
        LET k   == Local(t)
            out == SelectInt(db_ctx[k], t, engine, connectOk, execOk, row)
        IN  /\ db_ctx' = [db_ctx EXCEPT ![k] = out.c]
            /\ err' = Propagate(t, out.raised, stack[t])
            /\ opened' = Opened(out.ops)
            /\ last' = [NoLast EXCEPT !.t = t, !.op = "select_int",
                            !.arg = row,
                            !.depth = db_ctx[k].transactions,
                            !.level = Len(stack[t]), !.ops = out.ops,
                            !.raised = out.raised,
                            !.result = IF out.raised = "none"
                                       THEN select_int_check(row).result ELSE NoneVal,
                            !.engine0 = engine, !.outer = (stack[t] = <<>>)]
    /\ UNCHANGED <<engine, created, stack, attrs, cls, ormvars, callvars>>

\* create_engine(engine_name, ...)   (mysql.py:310-319)
BackendNames == {"mysql", "sqlite"}

CreateEngine(t) ==
    /\ err[t] = "none"
    /\ \E name \in BackendNames, importOk \in BOOLEAN :
        LET out == create_engine(engine, name, importOk, created + 1)
        IN  /\ engine' = out.engine
            /\ created' = IF out.raised = "none" THEN created + 1 ELSE created
            /\ err' = Propagate(t, out.raised, stack[t])
            /\ last' = [NoLast EXCEPT !.t = t, !.op = "create_engine",
                            !.arg = name, !.level = Len(stack[t]),
                            !.raised = out.raised, !.engine0 = engine,
                            !.outer = (stack[t] = <<>>)]
    /\ UNCHANGED <<db_ctx, stack, opened, attrs, cls, ormvars, callvars>>

Init ==
    /\ engine = None
    /\ created = 0
    /\ db_ctx = [k \in Threads |-> NoCtx]
    /\ stack = [t \in Threads |-> <<>>]
    /\ err = [t \in Threads |-> "none"]
    /\ opened = [t \in Threads |-> 0]
    /\ last = NoLast
    /\ attrs = <<>>
    /\ cls = NoClass
    /\ OrmIdle
    /\ CallIdle

\* a step of thread t, which nests with-blocks up to maxDepth deep
Step(t, maxDepth) ==
    \/ Enter_connection(t, maxDepth)
    \/ Enter_transaction(t, maxDepth)
    \/ Exit(t)
    \/ BodyRaise(t)
    \/ Catch(t)
    \/ DoUpdate(t)
    \/ CreateEngine(t)

\* the threads of the process, interleaved
Next == \E t \in Threads : Step(t, MaxDepthThreads)

Spec == Init /\ [][Next]_vars

\* one thread alone
NextSolo == Step(1, MaxDepth)

SpecSolo == Init /\ [][NextSolo]_vars

\* select_int on every first row, with and without an engine
NextSelectInt ==
    \E t \in Threads :
        \/ DoSelectInt(t)
        \/ CreateEngine(t)

SpecSelectInt == Init /\ [][NextSelectInt]_vars

\* class <name>(Model): <body>   (orm.py:165-166, 118-162)
DefineModel ==
    /\ cls.state = "undefined"
    /\ cls' = ModelMetaClass_new(attrs)
    /\ UNCHANGED <<dbvars, attrs, ormvars, callvars>>

\* the definition of every class body of up to MaxFields fields
InitOrm ==
    /\ engine = None
    /\ created = 0
    /\ db_ctx = [k \in Threads |-> NoCtx]
    /\ stack = [t \in Threads |-> <<>>]
    /\ err = [t \in Threads |-> "none"]
    /\ opened = [t \in Threads |-> 0]
    /\ last = NoLast
    /\ attrs \in ClassBodies
    /\ cls = NoClass
    /\ OrmIdle
    /\ CallIdle

NextOrm == DefineModel

SpecOrm == InitOrm /\ [][NextOrm]_vars

\* ---------------------------------------------------- Model operations
\* the dicts an instance is constructed from: any subset of the fields set,
\* the primary key to any value, the others to a value that is neither
\* their default nor what the rows of InitTables hold
Dicts ==
    {d \in UNION {[K -> Vals] : K \in SUBSET TableColumns} :
        \A k \in DOMAIN d \ {"id"} : d[k] = MaxVal}

\* the rows the table holds before the program runs
InitTables ==
    {{}, {r \in TableRows : r["id"] \in Vals /\ \A c \in TableColumns \ {"id"} : r[c] = 0}}

OrmRecord(op, arg, ok, out) ==
    [NoOrmLast EXCEPT !.op = op, !.arg = arg, !.ok = ok, !.raised = out.raised,
                      !.trace = out.trace, !.stmt = out.stmt, !.view = out.view,
                      !.table0 = table, !.inst0 = inst, !.calls = out.calls]

\* what a Model operation that wrote through the db module leaves
Written(op, ok, out) ==
    /\ inst' = Instance(out.self, inst.ctor)
    /\ table' = out.table
    /\ db_ctx' = [db_ctx EXCEPT ![Local(1)] = out.c]
    /\ opened' = Opened(out.ops)
    /\ olast' = OrmRecord(op, Null, ok /\ out.accepted, out)
    /\ UNCHANGED <<engine, created, stack, err, last, attrs, cls, hooks, callvars>>

\* inst = T(**d)   (orm.py:168-169): the one instance that is followed
NewInstance ==
    /\ cls.state = "defined"
    /\ ~inst.made
    /\ \E d \in Dicts : inst' = Instance(d, DOMAIN d)
    /\ olast' = [NoOrmLast EXCEPT !.op = "new"]
    /\ UNCHANGED <<dbvars, attrs, cls, hooks, table, callvars>>

\* inst.insert()
Insert ==
    /\ inst.made
    /\ \E connectOk \in BOOLEAN, execOk \in BOOLEAN, commitOk \in BOOLEAN :
        Written("insert", connectOk /\ execOk /\ commitOk,
                Model_insert(cls, hooks, inst.d, db_ctx[Local(1)], table,
                             1, engine, connectOk, execOk, commitOk))

\* inst.update()
Update_ ==
    /\ inst.made
    /\ \E connectOk \in BOOLEAN, execOk \in BOOLEAN, commitOk \in BOOLEAN :
        Written("update", connectOk /\ execOk /\ commitOk,
                Model_update(cls, hooks, inst.d, db_ctx[Local(1)], table,
                             1, engine, connectOk, execOk, commitOk))

\* inst.delete()
Delete ==
    /\ inst.made
    /\ \E connectOk \in BOOLEAN, execOk \in BOOLEAN, commitOk \in BOOLEAN :
        Written("delete", connectOk /\ execOk /\ commitOk,
                Model_delete(cls, hooks, inst.d, db_ctx[Local(1)], table,
                             1, engine, connectOk, execOk, commitOk))

\* T.get(key)
Get ==
    /\ cls.state = "defined"
    /\ \E key \in Vals, connectOk \in BOOLEAN, execOk \in BOOLEAN :
        LET out == Model_get(cls, key, db_ctx[Local(1)], table,
                             1, engine, connectOk, execOk)
        IN  /\ db_ctx' = [db_ctx EXCEPT ![Local(1)] = out.c]
            /\ opened' = Opened(out.ops)
            /\ olast' = [NoOrmLast EXCEPT
                            !.op = "get", !.arg = key, !.ok = connectOk /\ execOk,
                            !.raised = out.raised, !.trace = out.trace,
                            !.view = table, !.table0 = table, !.inst0 = inst,
                            !.result = out.result,
                            !.inserted =
                                IF olast.op # "insert" \/ ~olast.ok THEN "no"
                                ELSE IF olast.raised = "none" THEN "returned"
                                ELSE olast.raised]
    /\ UNCHANGED <<engine, created, stack, err, last, attrs, cls, hooks, inst,
                   table, callvars>>

\* a class of ModelBodies with any of the hooks, its table holding any of
\* InitTables, the engine created (manage.py:30)
InitModel ==
    /\ engine = 1
    /\ created = 1
    /\ db_ctx = [k \in Threads |-> NoCtx]
    /\ stack = [t \in Threads |-> <<>>]
    /\ err = [t \in Threads |-> "none"]
    /\ opened = [t \in Threads |-> 0]
    /\ last = NoLast
    /\ attrs \in ModelBodies
    /\ cls = NoClass
    /\ hooks \in SUBSET Triggers
    /\ inst = NoInst
    /\ table \in InitTables
    /\ olast = NoOrmLast
    /\ CallIdle

NextModel ==
    \/ DefineModel
    \/ NewInstance
    \/ Insert
    \/ Update_
    \/ Delete
    \/ Get

SpecModel == InitModel /\ [][NextModel]_vars

\* ------------------------------------------------------ calls of functions
\* no database session, no class, no instance
DbIdle ==
    /\ engine = None
    /\ created = 0
    /\ db_ctx = [k \in Threads |-> NoCtx]
    /\ stack = [t \in Threads |-> <<>>]
    /\ err = [t \in Threads |-> "none"]
    /\ opened = [t \in Threads |-> 0]
    /\ last = NoLast
    /\ attrs = <<>>
    /\ cls = NoClass
    /\ OrmIdle

\* Route(func).match(url), func tagged with the path input.path
RouteMatch ==
    /\ input.fn = "Route.match"
    /\ output = NoCall
    /\ Route_init(input.path).raised = "none"
    /\ output' = Route_match(Route_init(input.path), input.url)
    /\ UNCHANGED <<dbvars, attrs, cls, ormvars, input>>

\* every path of up to MaxPath characters, every url of up to MaxUrl
InitRoute ==
    /\ DbIdle
    /\ input \in [fn : {"Route.match"}, path : Strings(MaxPath), url : Strings(MaxUrl)]
    /\ output = NoCall

SpecRoute == InitRoute /\ [][RouteMatch]_vars

\* the static-file route on GET /static/<segments>
ServeStatic ==
    /\ input.fn = "StaticFileRoute"
    /\ output = NoCall
    /\ output' = StaticFileRoute_call(input.fs, StaticFileRoute_match(input.segs))
    /\ UNCHANGED <<dbvars, attrs, cls, ormvars, input>>

\* every url under /static/ of up to MaxSegments names, every file system
InitStatic ==
    /\ DbIdle
    /\ input \in [fn : {"StaticFileRoute"}, segs : StaticUrls, fs : FileSystems]
    /\ output = NoCall

SpecStatic == InitStatic /\ [][ServeStatic]_vars

\* a call of a handler wrapped by @api
CallApi ==
    /\ input.fn = "api"
    /\ output = NoCall
    /\ output' = Api_wrapper(input.handler, input.content_type)
    /\ UNCHANGED <<dbvars, attrs, cls, ormvars, input>>

\* every handler outcome, the response having any content type
InitApi ==
    /\ DbIdle
    /\ input \in [fn : {"api"}, handler : Handlers,
                  content_type : {"text/html", "application/json", "None"}]
    /\ output = NoCall

SpecApi == InitApi /\ [][CallApi]_vars

\* T().__sql__()   (orm.py:158)
GenSql ==
    /\ cls.state = "defined"
    /\ output = NoCall
    /\ output' = Gen_sql(cls.mapping)
    /\ UNCHANGED <<dbvars, attrs, cls, ormvars, input>>

\* the DDL of every class body of DdlBodies
InitDdl ==
    /\ engine = None
    /\ created = 0
    /\ db_ctx = [k \in Threads |-> NoCtx]
    /\ stack = [t \in Threads |-> <<>>]
    /\ err = [t \in Threads |-> "none"]
    /\ opened = [t \in Threads |-> 0]
    /\ last = NoLast
    /\ attrs \in DdlBodies
    /\ cls = NoClass
    /\ OrmIdle
    /\ CallIdle

SpecDdl == InitDdl /\ [][DefineModel \/ GenSql]_vars

\* ---------------------------------------------------------------- claims
HasOp(name) == \E i \in DOMAIN last.ops : last.ops[i].op = name
NumOp(name) == Cardinality({i \in DOMAIN last.ops : last.ops[i].op = name})

\* the context of the thread that ran the last operation
LastCtx == db_ctx[Local(last.t)]

\* that thread's real connection was open when the last operation began to end
RealWasOpen == LastCtx.real # None \/ HasOp("close")

\* C1: a transaction block whose body returned, and inside which a nested
\* transaction block returned as well, commits exactly once, at its own
\* exit when that brings the depth back to 0; an exit that leaves the depth
\* above 0 issues neither a commit nor a rollback.
C1_NestedCommitsOnce ==
    (last.op = "transaction_exit" /\ last.exc = "none") =>
        /\ last.depth > 1 => ~HasOp("commit") /\ ~HasOp("rollback")
        /\ (last.depth = 1 /\ last.inner = "returned" /\ RealWasOpen) =>
                NumOp("commit") = 1 /\ ~HasOp("rollback")

\* C2: when the body of a nested transaction block raised and the error
\* leaves the outermost transaction block, that exit rolls back, does not
\* commit, and the error that leaves it is the error of the body.
C2_NestedFailureRollsBack ==
    (/\ last.op = "transaction_exit"
     /\ last.depth = 1
     /\ last.inner = "raised"
     /\ last.exc = "BodyError"
     /\ RealWasOpen) =>
        HasOp("rollback") /\ ~HasOp("commit") /\ last.raised = "BodyError"

\* C3: while a thread has any with-block open its connection context stays
\* initialised; the exit of a connection block that is not the outermost does
\* nothing on the driver; a real connection is closed only by an operation
\* that ends the outermost block, once, and none is open once every block
\* has been exited; a thread never holds two.
C3_ConnectionScopeReentrant ==
    /\ \A t \in Threads :
        /\ stack[t] # <<>> => db_ctx[Local(t)].init
        /\ stack[t] = <<>> => ~db_ctx[Local(t)].init /\ opened[t] = 0
        /\ opened[t] = (IF db_ctx[Local(t)].real # None THEN 1 ELSE 0)
    /\ (last.op = "connection_exit" /\ ~last.outer) => last.ops = <<>>
    /\ (last.op = "connection_exit" /\ last.outer) => last.flag
    /\ HasOp("close") => last.outer /\ NumOp("close") = 1

\* C3 witness: the exit of a nested connection block, the real connection
\* still open for the enclosing block
C3_Witness ==
    /\ last.op = "connection_exit"
    /\ last.level >= 2
    /\ stack[last.t] # <<>>
    /\ db_ctx[Local(last.t)].real # None

\* C4: a transaction block entered with no with-block open initialises the
\* connection context itself, brings the depth to 1 and is the one to close
\* the connection, after the commit or rollback of its exit; a transaction
\* block entered inside a connection block closes nothing at its exit.
C4_TransactionOpensConnection ==
    /\ (last.op = "transaction_enter" /\ last.level = 0) =>
            /\ last.raised = "none"
            /\ last.flag
            /\ LastCtx.init
            /\ LastCtx.transactions = 1
    /\ (last.op = "transaction_exit" /\ last.flag) =>
            /\ ~LastCtx.init
            /\ HasOp("close") => last.ops[Len(last.ops)].op = "close"
    /\ (last.op = "transaction_exit" /\ ~last.flag) =>
            ~HasOp("close") /\ LastCtx.init

\* C5: an update whose statement executed commits at once and returns the
\* affected-row count when the depth is 0, and returns the count without
\* committing when the depth is above 0.
C5_UpdateAutoCommits ==
    (last.op = "update" /\ HasOp("execute") /\ last.raised # "ExecuteFailed") =>
        IF last.depth = 0
        THEN /\ HasOp("commit")
             /\ last.raised \in {"none", "CommitFailed"}
             /\ last.raised = "none" => last.result = IntVal(1)
        ELSE /\ ~HasOp("commit")
             /\ last.raised = "none"
             /\ last.result = IntVal(1)

\* C6: when the driver fails the commit of the exit of the outermost
\* transaction block (and would carry out a rollback), the exit commits,
\* rolls back on the same connection, and the commit's failure leaves it;
\* a block that opened the connection has closed it.
C6_CommitFailureRollsBack ==
    (/\ last.op = "transaction_exit"
     /\ last.depth = 1
     /\ last.exc = "none"
     /\ ~last.commitOk
     /\ last.rollbackOk
     /\ RealWasOpen) =>
        /\ Len(last.ops) >= 2
        /\ last.ops[1].op = "commit"
        /\ last.ops[2] = Op("rollback", last.ops[1].conn)
        /\ last.raised = "CommitFailed"
        /\ last.flag => HasOp("close") /\ ~LastCtx.init

\* C7: at most one create_engine call succeeds; a call made when an engine
\* exists fails with the already-initialised error and leaves the engine as
\* it was; a call naming a backend with no connector fails (with the
\* not-supported error when no engine exists) and sets no engine.
C7_EngineCreatedOnce ==
    /\ created <= 1
    /\ (created = 0) = (engine = None)
    /\ last.op = "create_engine" =>
        /\ last.engine0 # None =>
                last.raised = "DBError_AlreadyInitialized" /\ engine = last.engine0
        /\ last.arg \notin EngineMapping =>
                /\ last.raised # "none"
                /\ engine = last.engine0
                /\ last.engine0 = None => last.raised = "DBError_NotSupported"
        /\ last.raised = "none" => last.engine0 = None /\ engine # None

\* C7 witness: a create_engine call made after one that succeeded
C7_Witness ==
    /\ last.op = "create_engine"
    /\ last.engine0 # None
    /\ last.raised = "DBError_AlreadyInitialized"

\* C8: every driver operation (connect, execute, commit, rollback, close) a
\* thread performs is on a connection it opened itself; the real connection
\* its context holds is its own; no thread has two real connections open;
\* and a step of one thread leaves the context (connection and depth) of
\* every other thread as it was.
C8_ThreadScoped ==
    /\ [](/\ \A i \in DOMAIN last.ops : last.ops[i].conn = last.t
          /\ \A t \in Threads :
                /\ db_ctx[Local(t)].real \in {None, t}
                /\ opened[t] <= 1)
    /\ [][\A t \in Threads : Step(t, MaxDepthThreads) =>
            \A u \in Threads \ {t} : db_ctx'[Local(u)] = db_ctx[Local(u)]]_vars

\* C8 witness: two threads, each with its own real connection open inside its
\* own blocks, one of them just having executed a statement on its own
C8_Witness ==
    /\ \A t \in Threads : db_ctx[Local(t)].real = t /\ stack[t] # <<>>
    /\ last.op = "update"
    /\ HasOp("execute")

\* C9: select_int on a first row -- the statement having executed -- fails
\* with MultiColumnsError when the row has not exactly one column, with
\* ColumnTypeError when its one column is not an int, and returns the value
\* of its one int column.
C9_SelectIntChecksRow ==
    (/\ last.op = "select_int"
     /\ last.arg # <<>>
     /\ last.raised \notin {"AttributeError", "ConnectFailed", "ExecuteFailed"}) =>
        LET row == last.arg
        IN  /\ Len(row) # 1 => last.raised = "MultiColumnsError"
            /\ (Len(row) = 1 /\ row[1].value.type # "int") =>
                    last.raised = "ColumnTypeError"
            /\ (Len(row) = 1 /\ row[1].value.type = "int") =>
                    last.raised = "none" /\ last.result = row[1].value

\* the number of fields of a class body marked primary_key
NumPrimaryKeys(body) == Cardinality({i \in DOMAIN body : body[i].primary_key})

\* C10: the definition of a class fails (TypeError) when its body marks no
\* field or more than one field primary_key, whether or not the fields are
\* given name=; a class is defined only with exactly one.
C10_ExactlyOnePrimaryKey ==
    cls.state # "undefined" =>
        /\ NumPrimaryKeys(attrs) # 1 => cls.state = "failed" /\ cls.raised = "TypeError"
        /\ cls.state = "defined" => NumPrimaryKeys(attrs) = 1

\* C11: once a class is defined, the Field of its primary key is neither
\* nullable nor updatable whatever its declaration said, and every Field of
\* the class body is in __mapping__ under the attribute it was bound to.
C11_PrimaryKeyCoercedAllMapped ==
    cls.state = "defined" =>
        /\ cls.primary_key \in DOMAIN cls.mapping
        /\ ~cls.mapping[cls.primary_key].nullable
        /\ ~cls.mapping[cls.primary_key].updatable
        /\ \A i \in DOMAIN attrs : AttrNames[i] \in DOMAIN cls.mapping

\* C12: for a class that defines no hook, get(primary key) made right after
\* insert() of an instance -- driver and server carrying out all that is
\* asked -- follows an insert() that returned, and returns a record whose
\* every insertable field equals the instance's, a field not set at
\* construction being its Field default, recorded on the instance.
C12_InsertGetRoundTrip ==
    (/\ olast.op = "get"
     /\ olast.inserted # "no"
     /\ olast.ok
     /\ hooks = {}
     /\ cls.primary_key \in DOMAIN inst.d => olast.arg = inst.d[cls.primary_key]) =>
        /\ olast.inserted = "returned"
        /\ olast.raised = "none"
        /\ olast.result.made
        /\ \A k \in Insertable(cls) :
                /\ k \in DOMAIN inst.d
                /\ olast.result.d[k] = inst.d[k]
                /\ k \notin inst.ctor => inst.d[k] = Field_default(cls.mapping[k])

\* before and after differ only in columns of updatable fields of the rows
\* whose primary key is key: every other row is there as it was, and each
\* row of that key is still there with its other columns as they were
OnlyUpdatableChanged(before, after, key) ==
    LET pk     == cls.primary_key
        frozen == TableColumns \ Updatable(cls)
        Same(r, r0) == \A c \in frozen : r[c] = r0[c]
    IN  /\ \A r0 \in before : r0[pk] # key => r0 \in after
        /\ \A r0 \in before : r0[pk] = key => \E r \in after : Same(r, r0)
        /\ \A r \in after :
                \/ r \in before
                \/ \E r0 \in before : r0[pk] = key /\ Same(r, r0)

\* C13: update() changes, of the rows the connection sees and of the rows
\* committed, only the columns of updatable fields of the row whose primary
\* key is the instance's; its statement sets no column of a field that is
\* not updatable; an instance with no primary key changes nothing.
C13_UpdateOnlyUpdatable ==
    olast.op = "update" =>
        LET pk == cls.primary_key
        IN  /\ DOMAIN olast.stmt.row \subseteq Updatable(cls)
            /\ IF pk \in DOMAIN olast.inst0.d
               THEN /\ OnlyUpdatableChanged(olast.table0, olast.view, olast.inst0.d[pk])
                    /\ OnlyUpdatableChanged(olast.table0, table, olast.inst0.d[pk])
                    /\ olast.stmt.kind = "update" => olast.stmt.key = olast.inst0.d[pk]
               ELSE olast.view = olast.table0 /\ table = olast.table0

\* C13 witness: update() of an instance whose "name", not updatable, and
\* whose "age", updatable, both differ from the stored row of its primary
\* key (itself declared updatable): the connection sees the row with the
\* new age and the stored name
C13_Witness ==
    /\ olast.op = "update"
    /\ attrs[1].updatable
    /\ "name" \notin Updatable(cls)
    /\ olast.stmt.kind = "update"
    /\ TableColumns \subseteq DOMAIN inst.d
    /\ \E r0 \in olast.table0 :
        /\ r0["id"] = inst.d["id"]
        /\ r0["name"] # inst.d["name"]
        /\ r0["age"] # inst.d["age"]
        /\ [r0 EXCEPT !["age"] = inst.d["age"]] \in olast.view

\* the hook of a Model operation
HookOf(op) ==
    CASE op = "insert" -> "pre_insert"
      [] op = "update" -> "pre_update"
      [] op = "delete" -> "pre_delete"

\* C14: insert(), update() and delete() of a class that defines the hook of
\* the operation run it once, before the statement executes; of a class that
\* does not, they run no hook and -- driver and server carrying out what is
\* asked, the instance having the primary key the statement needs -- execute
\* their statement and return.
C14_LifecycleHooks ==
    olast.op \in {"insert", "update", "delete"} =>
        LET h    == HookOf(olast.op)
            runs == {i \in DOMAIN olast.trace : olast.trace[i] = h}
        IN  IF h \in hooks
            THEN /\ Cardinality(runs) = 1
                 /\ \A i \in DOMAIN olast.trace :
                        olast.trace[i] = "execute" => \E j \in runs : j < i
            ELSE /\ runs = {}
                 /\ (/\ olast.ok
                     /\ olast.op # "insert" => cls.primary_key \in DOMAIN olast.inst0.d) =>
                        /\ \E i \in DOMAIN olast.trace : olast.trace[i] = "execute"
                        /\ olast.raised = "none"

\* the values a placeholder may be bound to in a url: the non-empty strings
\* with no '/'
Segments(url) == {s \in Strings(Len(url)) : s # <<>> /\ \A i \in DOMAIN s : s[i] # "/"}

\* the path from its k-th item on, each placeholder from the g-th on
\* replaced by the value groups binds it to
RECURSIVE Subst(_, _, _, _)
Subst(items, k, groups, g) ==
    IF k > Len(items) THEN <<>>
    ELSE IF items[k].kind = "char"
    THEN items[k].name \o Subst(items, k + 1, groups, g)
    ELSE groups[g] \o Subst(items, k + 1, groups, g + 1)

\* the bindings of the placeholders of the path under which it is the url
Bindings(path, url) ==
    LET items == Split(path, 1)
        n     == Cardinality({k \in DOMAIN items : items[k].kind = "group"})
    IN  {b \in [1..n -> Segments(url)] : Subst(items, 1, b, 1) = url}

\* C15: Route.match(url) returns -- it does not raise -- the values of the
\* placeholders, in order, of a binding of non-empty runs of characters other
\* than '/' under which the path is the whole url, when there is one, and
\* no match when there is none; a path with no placeholder matches the url
\* equal to it only.
C15_RouteMatch ==
    (input.fn = "Route.match" /\ output # NoCall) =>
        /\ output.raised = "none"
        /\ output.ok = (Bindings(input.path, input.url) # {})
        /\ output.ok => output.groups \in Bindings(input.path, input.url)

\* loc is at or below the directory root
Under(root, loc) == Len(loc) >= Len(root) /\ SubSeq(loc, 1, Len(root)) = root

\* C16: the static-file route streams the file a url under /static/ resolves
\* to when that is a regular file under the document root, and fails with
\* the 404 HttpError, streaming nothing, when the url resolves to no regular
\* file or to one outside the document root.
C16_StaticFileConfined ==
    (input.fn = "StaticFileRoute" /\ output # NoCall) =>
        LET r == Resolve(<<>>, DocumentRoot \o <<"static">> \o input.segs, 1)
        IN  IF r.found /\ r.loc \in input.fs /\ Under(DocumentRoot, r.loc)
            THEN output.raised = "none" /\ output.streamed = r.loc
            ELSE output.raised = "HttpError_404" /\ output.streamed = <<"None">>

\* C17: the wrapper of @api never raises: it returns, having set the
\* content type to 'application/json', the JSON of what the handler
\* returned, the envelope of the fields of the APIError the handler raised,
\* or -- any other exception, logged -- the envelope of 'internalerror'.
C17_ApiContainsOutcomes ==
    (input.fn = "api" /\ output # NoCall) =>
        LET h == input.handler
        IN  /\ output.raised = "none"
            /\ output.content_type = "application/json"
            /\ (h.kind = "return" /\ Serializable(h.value)) =>
                    output.r = Json("value", h.value, "", "", "")
            /\ (h.kind = "raise" /\ h.exc.api) =>
                    output.r = Json("envelope", "None", h.exc.error, h.exc.data,
                                    h.exc.message)
            /\ (h.kind = "raise" /\ ~h.exc.api) =>
                    /\ output.r.kind = "envelope"
                    /\ output.r.error = "internalerror"
                    /\ output.logged

\* C18: entering a with-block opens no real connection; a real connection
\* is opened only by a statement, one at a time, and never while the thread
\* has one open; and a with-block exited with no operation run since it was
\* entered has opened and closed none.
C18_LazyConnection ==
    /\ [](/\ last.op \in {"connection_enter", "transaction_enter"} =>
                /\ last.ops = <<>>
                /\ last.level = 0 => LastCtx.real = None /\ opened[last.t] = 0
          /\ HasOp("connect") =>
                /\ last.op = "update"
                /\ NumOp("connect") = 1
                /\ last.ops[1].op = "connect"
          /\ \A t \in Threads :
                opened[t] = (IF db_ctx[Local(t)].real # None THEN 1 ELSE 0))
    /\ [][/\ (db_ctx[Local(last'.t)].real # None /\ last' # last) =>
                \A i \in DOMAIN last'.ops : last'.ops[i].op # "connect"
          /\ (/\ last.op \in {"connection_enter", "transaction_enter"}
              /\ last.raised = "none"
              /\ last'.op \in {"connection_exit", "transaction_exit"}
              /\ last'.level = last.level + 1) =>
                \A i \in DOMAIN last'.ops :
                    last'.ops[i].op \notin {"connect", "close"}]_vars

\* C18 witness: inside a with-block, a statement that opened the real
\* connection, still open for the rest of the block
C18_Witness ==
    /\ last.op = "update"
    /\ HasOp("connect")
    /\ stack[last.t] # <<>>
    /\ LastCtx.real # None

\* the lines of kind kind of a statement, in order
RECURSIVE LinesOf(_, _)
LinesOf(sql, kind) ==
    IF sql = <<>> THEN <<>>
    ELSE (IF sql[1].kind = kind THEN <<sql[1]>> ELSE <<>>) \o LinesOf(Tail(sql), kind)

\* C19: the DDL of a class of n fields is generated -- nothing is raised --
\* with n column lines, one per field, in increasing order of the fields'
\* declaration index, each 'not null' unless its field is nullable, then one
\* primary-key clause naming the primary-key column, and ');' last.
C19_DdlOneLinePerField ==
    (cls.state = "defined" /\ output # NoCall) =>
        LET cols == LinesOf(output.sql, "column")
            pks  == LinesOf(output.sql, "primary key")
            n    == Len(output.sql)
        IN  /\ output.raised = "none"
            /\ Len(cols) = Cardinality(DOMAIN cls.mapping)
            /\ \A i \in DOMAIN cols :
                /\ cols[i].name \in DOMAIN cls.mapping
                /\ cols[i].not_null = ~cls.mapping[cols[i].name].nullable
                /\ \A j \in DOMAIN cols :
                    i < j => cls.mapping[cols[i].name].order
                                < cls.mapping[cols[j].name].order
            /\ pks = <<Line("primary key", cls.primary_key, FALSE)>>
            /\ n >= 2
            /\ output.sql[n].kind = ");"
            /\ output.sql[n - 1].kind = "primary key"

\* the positions of the operation name in the trace of the last Model operation
At(name) == {i \in DOMAIN olast.trace : olast.trace[i] = name}

\* C20: in every operation that runs a statement -- it returns a row, finds
\* none, fails to execute, or fails at its auto-commit -- each cursor obtained
\* is closed, once, after the statement and before the connection is closed
\* and the operation ends; an operation that obtained no cursor closes none.
C20_CursorsClosed ==
    olast.op \in {"insert", "update", "delete", "get"} =>
        /\ Cardinality(At("cursor")) = Cardinality(At("cursor_close"))
        /\ Cardinality(At("cursor")) <= 1
        /\ \A i \in At("cursor") : \E j \in At("cursor_close") : i < j
        /\ \A i \in At("execute") : \E j \in At("cursor_close") : i < j
        /\ \A j \in At("cursor_close") : \A k \in At("close") : j < k

\* C20 witness: an operation whose statement failed to execute, and one
\* that found no row, its cursor closed
C20_Witness ==
    /\ olast.op \in {"insert", "update", "delete", "get"}
    /\ At("cursor") # {}
    /\ At("cursor_close") # {}
    /\ \/ olast.raised = "ExecuteFailed"
       \/ olast.op = "get" /\ olast.raised = "none" /\ ~olast.result.made

\* the transaction blocks thread t has entered and not yet exited
NumTransactions(t) ==
    Cardinality({i \in DOMAIN stack[t] : stack[t][i].kind = "transaction"})

\* C21: on each thread, whatever well-nested connection and transaction
\* blocks were entered and exited, their bodies returning or raising,
\* _db_ctx.transactions is never negative and is the number of transaction
\* blocks entered and not yet exited; once every block entered has exited it
\* is 0 and the thread's context holds no connection (no _LazyConnection,
\* and so no real connection).
C21_DepthCountsTransactions ==
    \A t \in Threads :
        LET c == db_ctx[Local(t)]
        IN  /\ c.transactions >= 0
            /\ c.transactions = NumTransactions(t)
            /\ stack[t] = <<>> =>
                   /\ c.transactions = 0
                   /\ ~DbCtx_is_init(c)
                   /\ c.real = None

\* the outer of two nested transaction blocks, inside a connection block,
\* has exited after the inner one ended by an exception: the depth went
\* 0, 1, 2, 1, 0 and the connection block is still open
C21_Witness ==
    /\ last.op = "transaction_exit"
    /\ last.depth = 1
    /\ last.inner = "raised"
    /\ Len(stack[last.t]) = 1
    /\ stack[last.t][1].kind = "connection"
    /\ db_ctx[Local(last.t)].transactions = 0
    /\ DbCtx_is_init(db_ctx[Local(last.t)])

====
